---- MODULE Spec2Model ----
(***************************************************************************)
(* Model of src/main.py: run_experiment (lines 23-82) and the script that  *)
(* calls it (lines 85-119).  The collaborators imported from the sngrad    *)
(* package (learning_rate_search, comp_loss_accuracy, Model, DataServer)   *)
(* are not part of src/ and are modelled from spec.md.                     *)
(*                                                                         *)
(* Learning rates are integers (a scaled grid); model parameters are the   *)
(* number of optimizer steps applied since the Model was constructed.      *)
(***************************************************************************)
EXTENDS Integers, Sequences, FiniteSets, TLC

\* ---- bounds ------------------------------------------------------------
MaxRuns == 2          \* calls of run_experiment made by the script
NumBatches == 2       \* batches in the (finite) training stream
MaxEpochs == 3        \* largest configured num_epochs
MaxCadence == 3       \* largest configured stats_every_num_epochs
MaxLr == 3            \* largest learning rate of the grid

\* ---- values ------------------------------------------------------------
\* Python None / a non-null value (main.py:34, main.py:97)
None == <<>>
Some(v) == <<v>>
IsNone(x) == x = None
Val(x) == x[1]

OptimizerNames == {"sgd", "sng"}

\* the hparams dictionaries the script may build (main.py:87-107); the
\* nested lr_search dictionary is flattened to lr_min / lr_max
HParamsDomain ==
    [ optimizer : {None},
      step_size : {None} \cup {Some(v) : v \in 0..MaxLr},
      num_epochs : (-1)..MaxEpochs,
      stats_every_num_epochs : (-1)..MaxCadence,
      lr_min : 1..(MaxLr - 1),
      lr_max : 1..MaxLr ]

VARIABLES
    hparams,      \* the caller's dictionary, shared by all calls
    files,        \* file system: contents of "<optimizer>_training.txt"
    pc,           \* position of the script / of run_experiment
    step_size,    \* local of run_experiment (line 40)
    epoch,        \* loop variable of line 55
    batch,        \* batches of training_generator consumed in this epoch
    params,       \* model parameters: number of updates applied
    stepLog,      \* calls of model.step made by the current call
    evalLog,      \* calls of comp_loss_accuracy made by the current call
    scalars,      \* calls of writer.add_scalar made by the current call
    fileOpen,     \* the run-log handle of the current call is open
    writerOpen,   \* the SummaryWriter of the current call is open
    error,        \* exception that left run_experiment, or "none"
    runs          \* one entry per call of run_experiment so far

vars == <<hparams, files, pc, step_size, epoch, batch, params, stepLog,
          evalLog, scalars, fileOpen, writerOpen, error, runs>>

runId == Len(runs)

\* ---- pure helpers ------------------------------------------------------
\* Python's % for a non-zero divisor: the result has the sign of the divisor
PyMod(a, b) == IF b > 0 THEN a % b ELSE 0 - ((0 - a) % (0 - b))

\* line 34: if hparams["step_size"] is None
NeedsSearchAlways(hp) == TRUE
NeedsSearch(hp) == IsNone(hp.step_size)

\* line 37: hparams["step_size"] = best_lr
StoreBestLrScaled(hp, best_lr) == [hp EXCEPT !.step_size = Some(best_lr + hp.lr_max)]
StoreBestLrDropped(hp, best_lr) == hp
StoreBestLr(hp, best_lr) == [hp EXCEPT !.step_size = Some(best_lr)]

\* line 35: no handler surrounds the call, an exception leaves run_experiment
SearchRaisedSwallowed == "SETUP"
SearchRaised == "FAILED"

\* line 55: for epoch in range(num_epochs)
LoopDoneEarly(e, n) == e >= n - 1
LoopDone(e, n) == e >= n

\* line 59: for x, y in training_generator
StreamDoneShort(b) == b >= NumBatches - 1
StreamDone(b) == b >= NumBatches

\* line 66: (epoch + 1) % stats_every_num_epochs == 0   (divisor non-zero)
IsTickZeroBased(e, k) == PyMod(e, k) = 0
IsTick(e, k) == PyMod(e + 1, k) = 0

\* line 64: writer.add_scalar("Epoch_time", epoch_time, epoch)
EpochTimeScalar(e) == <<[tag |-> "Epoch_time", step |-> e]>>

\* lines 71-74: the four scalars of a cadence tick
TickScalarsTwice(e) ==
    << [tag |-> "Accuracy/train", step |-> e], [tag |-> "Accuracy/test", step |-> e],
       [tag |-> "Loss/train", step |-> e], [tag |-> "Loss/test", step |-> e],
       [tag |-> "Loss/test", step |-> e] >>
TickScalars(e) ==
    << [tag |-> "Accuracy/train", step |-> e], [tag |-> "Accuracy/test", step |-> e],
       [tag |-> "Loss/train", step |-> e], [tag |-> "Loss/test", step |-> e] >>

\* comp_loss_accuracy(model, data_generator): a deterministic function of
\* the parameters and the stream that leaves both unchanged (spec.md 4.4)
comp_loss_accuracy(p, stream) ==
    [loss |-> <<"loss", stream, p>>, accuracy |-> <<"accuracy", stream, p>>]

\* line 76: the record of a cadence tick
Message(e, train, test) ==
    [epoch |-> e, epoch_time |-> "epoch_time",
     train_loss |-> train.loss, test_loss |-> test.loss,
     train_accuracy |-> train.accuracy, test_accuracy |-> test.accuracy]

\* line 29: open(..., "w") truncates the file
OpenW(fs, name) == [fs EXCEPT ![name] = <<>>]

\* line 77-78: file.write(message + "\n"); file.flush()
FileWriteReplace(fs, name, message) == [fs EXCEPT ![name] = <<message>>]
FileWrite(fs, name, message) == [fs EXCEPT ![name] = Append(@, message)]

\* learning_rate_search(hparams): preconditions of spec.md 4.5
SearchConfigValid(hp) == hp.lr_min > 0 /\ hp.lr_max > hp.lr_min
\* candidates lie in the bracket [lr_min, lr_max] (spec.md 4.5, 8)
SearchCandidates(hp) == hp.lr_min .. hp.lr_max

\* ---- the script and run_experiment -------------------------------------
Init ==
    /\ hparams \in HParamsDomain
    /\ files = [n \in OptimizerNames |-> <<>>]
    /\ pc = "IDLE"
    /\ step_size = None
    /\ epoch = 0
    /\ batch = 0
    /\ params = 0
    /\ stepLog = <<>>
    /\ evalLog = <<>>
    /\ scalars = <<>>
    /\ fileOpen = FALSE
    /\ writerOpen = FALSE
    /\ error = "none"
    /\ runs = <<>>

\* lines 110-113 / 116-119 and lines 27-32: the script sets the optimizer
\* and calls run_experiment, which opens the run log for writing.  An
\* exception of an earlier call has ended the script.
Call(opt) ==
    /\ pc \in {"IDLE", "DONE"}
    /\ runId < MaxRuns
    /\ hparams' = [hparams EXCEPT !.optimizer = opt]
    /\ files' = OpenW(files, opt)
    /\ fileOpen' = TRUE
    /\ writerOpen' = FALSE
    /\ pc' = "INIT"
    /\ step_size' = None
    /\ epoch' = 0
    /\ batch' = 0
    /\ params' = 0
    /\ stepLog' = <<>>
    /\ evalLog' = <<>>
    /\ scalars' = <<>>
    /\ error' = "none"
    /\ runs' = Append(runs, [optimizer |-> opt, entry_step_size |-> hparams.step_size,
                             searches |-> 0, best_lr |-> None])

\* lines 34-35: step_size is None, learning_rate_search is entered
BeginSearch ==
    /\ pc = "INIT"
    /\ NeedsSearch(hparams)
    /\ pc' = "LR_SEARCH"
    /\ runs' = [runs EXCEPT ![runId].searches = @ + 1]
    /\ UNCHANGED <<hparams, files, step_size, epoch, batch, params, stepLog,
                   evalLog, scalars, fileOpen, writerOpen, error>>

\* lines 35-37: the search returns the best candidate, written to hparams
SearchReturn ==
    /\ pc = "LR_SEARCH"
    /\ SearchConfigValid(hparams)
    /\ \E best_lr \in SearchCandidates(hparams) :
          /\ hparams' = StoreBestLr(hparams, best_lr)
          /\ runs' = [runs EXCEPT ![runId].best_lr = Some(best_lr)]
    /\ pc' = "SETUP"
    /\ UNCHANGED <<files, step_size, epoch, batch, params, stepLog,
                   evalLog, scalars, fileOpen, writerOpen, error>>

\* line 35: the search raises (invalid bracket, or no finite-loss candidate)
SearchFail ==
    /\ pc = "LR_SEARCH"
    /\ error' = IF SearchConfigValid(hparams) THEN "SearchExhausted"
                                              ELSE "ConfigurationError"
    /\ pc' = SearchRaised
    /\ UNCHANGED <<hparams, files, step_size, epoch, batch, params, stepLog,
                   evalLog, scalars, fileOpen, writerOpen, runs>>

\* lines 40-53: locals, data server, fresh model, metrics writer
Setup ==
    /\ \/ pc = "SETUP"
       \/ pc = "INIT" /\ ~NeedsSearch(hparams)
    /\ step_size' = hparams.step_size
    /\ params' = 0
    /\ writerOpen' = TRUE
    /\ epoch' = 0
    /\ batch' = 0
    /\ pc' = "RUN_EPOCH"
    /\ UNCHANGED <<hparams, files, stepLog, evalLog, scalars, fileOpen,
                   error, runs>>

\* lines 59-61: one optimizer step on the next batch of the training stream
Step ==
    /\ pc = "RUN_EPOCH"
    /\ ~LoopDone(epoch, hparams.num_epochs)
    /\ ~StreamDone(batch)
    /\ stepLog' = Append(stepLog, [epoch |-> epoch, batch |-> batch + 1,
                                   step_size |-> step_size, params |-> params])
    /\ params' = params + 1
    /\ batch' = batch + 1
    /\ UNCHANGED <<hparams, files, pc, step_size, epoch, evalLog, scalars,
                   fileOpen, writerOpen, error, runs>>

\* lines 63-79: the training stream is exhausted; epoch time, and at a
\* cadence tick evaluation, scalars and the run-log record
EndEpoch ==
    /\ pc = "RUN_EPOCH"
    /\ ~LoopDone(epoch, hparams.num_epochs)
    /\ StreamDone(batch)
    /\ IF hparams.stats_every_num_epochs = 0
       THEN \* line 66 raises ZeroDivisionError
            /\ scalars' = scalars \o EpochTimeScalar(epoch)
            /\ error' = "ZeroDivisionError"
            /\ pc' = "FAILED"
            /\ UNCHANGED <<files, epoch, batch, evalLog>>
       ELSE IF IsTick(epoch, hparams.stats_every_num_epochs)
       THEN LET train == comp_loss_accuracy(params, "train")
                test == comp_loss_accuracy(params, "test")
            IN  /\ evalLog' = evalLog \o
                      << [stream |-> "train", epoch |-> epoch, params |-> params,
                          steps |-> Len(stepLog)],
                         [stream |-> "test", epoch |-> epoch, params |-> params,
                          steps |-> Len(stepLog)] >>
                /\ scalars' = scalars \o EpochTimeScalar(epoch) \o TickScalars(epoch)
                /\ files' = FileWrite(files, hparams.optimizer, Message(epoch, train, test))
                /\ epoch' = epoch + 1
                /\ batch' = 0
                /\ UNCHANGED <<pc, error>>
       ELSE /\ scalars' = scalars \o EpochTimeScalar(epoch)
            /\ epoch' = epoch + 1
            /\ batch' = 0
            /\ UNCHANGED <<files, evalLog, pc, error>>
    /\ UNCHANGED <<hparams, step_size, params, stepLog, fileOpen, writerOpen, runs>>

\* lines 81-82: the loop is over, writer and run log are closed
Finish ==
    /\ pc = "RUN_EPOCH"
    /\ LoopDone(epoch, hparams.num_epochs)
    /\ writerOpen' = FALSE
    /\ fileOpen' = FALSE
    /\ pc' = "DONE"
    /\ UNCHANGED <<hparams, files, step_size, epoch, batch, params, stepLog,
                   evalLog, scalars, error, runs>>

RunStep == BeginSearch \/ SearchReturn \/ SearchFail \/ Setup \/ Step \/ EndEpoch \/ Finish

Next == (\E opt \in OptimizerNames : Call(opt)) \/ RunStep

Spec == Init /\ [][Next]_vars

\* a single thread of control runs every statement to its end
FairSpec == Spec /\ WF_vars(RunStep)

\* ---- properties --------------------------------------------------------
cur == runs[runId]
Searched == runId >= 1 /\ cur.searches > 0
InBracket(x) == ~IsNone(x) /\ hparams.lr_min <= Val(x) /\ Val(x) <= hparams.lr_max
\* n is an integer multiple of k
Multiple(n, k) == \E m \in (0 - n)..n : n = m * k
SearchErrors == {"SearchExhausted", "ConfigurationError"}
Rank(p) == CASE p = "IDLE" -> 0 [] p = "INIT" -> 1 [] p = "LR_SEARCH" -> 2
             [] p = "SETUP" -> 3 [] p = "RUN_EPOCH" -> 4 [] OTHER -> 5
\* epochs of the current call whose loop body has run to line 66
EpochsEnded == IF error = "ZeroDivisionError" THEN epoch + 1 ELSE epoch

\* C1 (as claimed): every step size passed to model.step lies in
\* [lr_min, lr_max], however it was configured (stated for a positive
\* step size and a proper bracket, lr_min < lr_max).
C1_AnyStepSizeInBracket ==
    \A i \in 1..Len(stepLog) :
        (hparams.lr_min < hparams.lr_max /\ ~IsNone(stepLog[i].step_size)
            /\ Val(stepLog[i].step_size) > 0)
        => InBracket(stepLog[i].step_size)

\* C1 (amended): in a call that obtained the step size from
\* learning_rate_search every step size passed to model.step lies in
\* [lr_min, lr_max]; in a call that found step_size configured, model.step
\* receives the configured value as it is.
C1_SearchedStepSizeInBracket ==
    \A i \in 1..Len(stepLog) :
        IF Searched THEN InBracket(stepLog[i].step_size)
        ELSE stepLog[i].step_size = cur.entry_step_size

C1_Witness == Searched /\ Len(stepLog) > 0 /\ pc = "DONE"

\* C2: within one call the phases follow INIT -> (LR_SEARCH) -> RUN_EPOCH
\* -> DONE without going back; the search is entered at most once, only
\* when step_size was null at entry, and has returned before the first
\* optimizer step; a call in DONE makes no further step or evaluation.
C2_Step ==
    /\ runId' = runId => Rank(pc') >= Rank(pc)
    /\ (runId' = runId /\ pc = "DONE") => (stepLog' = stepLog /\ evalLog' = evalLog)
    /\ runId' >= 1 => runs'[runId'].searches <= 1
    /\ (pc' = "LR_SEARCH" /\ pc # "LR_SEARCH")
          => (IsNone(runs'[runId'].entry_step_size) /\ stepLog' = <<>>)
    /\ (stepLog' # stepLog /\ stepLog' # <<>>)
          => /\ runs'[runId'].searches = (IF IsNone(runs'[runId'].entry_step_size) THEN 1 ELSE 0)
             /\ IsNone(runs'[runId'].entry_step_size) => ~IsNone(runs'[runId'].best_lr)
             /\ pc' = "RUN_EPOCH"
    /\ pc' = "DONE" => (~fileOpen' /\ ~writerOpen')
C2_PhaseOrder == [][C2_Step]_vars

C2_Witness == pc = "DONE" /\ Searched /\ Len(stepLog) > 0

\* C3: the optimizer steps of a call are, in order, batch 1..NumBatches of
\* epoch 0, then of epoch 1, ..., each applied to the parameters the
\* previous one produced and all with the same step size; a completed call
\* has run num_epochs epochs and num_epochs * NumBatches steps.
C3_StepsPerEpoch ==
    /\ \A i \in 1..Len(stepLog) :
          /\ stepLog[i].epoch = (i - 1) \div NumBatches
          /\ stepLog[i].batch = ((i - 1) % NumBatches) + 1
          /\ stepLog[i].params = i - 1
          /\ stepLog[i].step_size = step_size
    /\ pc \in {"RUN_EPOCH", "DONE"} => Len(stepLog) = epoch * NumBatches + batch
    /\ (pc = "DONE" /\ hparams.num_epochs >= 0)
          => (epoch = hparams.num_epochs /\ Len(stepLog) = hparams.num_epochs * NumBatches)

C3_Witness == pc = "DONE" /\ Len(stepLog) >= 2 * NumBatches

\* C4: comp_loss_accuracy is called in pairs (training stream, held-out
\* stream), one pair for each ended epoch whose 1-based index is a multiple
\* of stats_every_num_epochs and none for any other, each pair after all
\* batches of its epoch were stepped; a completed call with cadence k >= 1
\* has made floor(num_epochs / k) pairs.
C4_EvalAtCadence ==
    LET k == hparams.stats_every_num_epochs
        TickEpochs == {e \in 0..(epoch - 1) : Multiple(e + 1, k)}
    IN  /\ Len(evalLog) = 2 * Cardinality(TickEpochs)
        /\ \A j \in 1..(Len(evalLog) \div 2) :
              /\ evalLog[2 * j - 1].stream = "train"
              /\ evalLog[2 * j].stream = "test"
              /\ evalLog[2 * j - 1].epoch = evalLog[2 * j].epoch
              /\ evalLog[2 * j - 1].params = evalLog[2 * j].params
              /\ evalLog[2 * j].epoch \in TickEpochs
              /\ evalLog[2 * j].steps = (evalLog[2 * j].epoch + 1) * NumBatches
              /\ \A i \in 1..(j - 1) : evalLog[2 * i].epoch < evalLog[2 * j].epoch
        /\ (pc = "DONE" /\ hparams.num_epochs >= 0 /\ k >= 1)
              => Len(evalLog) = 2 * (hparams.num_epochs \div k)

C4_Witness ==
    /\ pc = "DONE" /\ hparams.num_epochs = 3 /\ hparams.stats_every_num_epochs = 2
    /\ Len(evalLog) = 2

\* C5: a call with invalid hyperparameters (non-positive step_size,
\* num_epochs or stats_every_num_epochs, or lr_max <= lr_min) makes no
\* optimizer step and no evaluation, and does not complete.
InvalidHParams ==
    \/ ~IsNone(cur.entry_step_size) /\ Val(cur.entry_step_size) <= 0
    \/ hparams.num_epochs <= 0
    \/ hparams.stats_every_num_epochs <= 0
    \/ hparams.lr_max <= hparams.lr_min
C5_InvalidFailsFast ==
    (runId >= 1 /\ InvalidHParams)
        => (stepLog = <<>> /\ evalLog = <<>> /\ pc \notin {"RUN_EPOCH", "DONE"})

\* C6 (as claimed): no action ever removes or overwrites a record of a run
\* log: every log only grows at its end.
C6_NeverTruncated ==
    [][\A n \in OptimizerNames :
          /\ Len(files'[n]) >= Len(files[n])
          /\ SubSeq(files'[n], 1, Len(files[n])) = files[n]]_vars

\* C6 (amended): within one call of run_experiment the run log changes only
\* by appending one record at an evaluation tick, with a larger epoch than
\* every record before it, and every tick appends one; entering
\* run_experiment empties the log of its optimizer name and leaves the logs
\* of other names alone.
C6_Step ==
    IF runId' = runId
    THEN /\ \A n \in OptimizerNames :
               \/ files'[n] = files[n]
               \/ /\ n = hparams.optimizer
                  /\ Len(files'[n]) = Len(files[n]) + 1
                  /\ SubSeq(files'[n], 1, Len(files[n])) = files[n]
                  /\ files'[n][Len(files'[n])] =
                        Message(epoch, comp_loss_accuracy(params, "train"),
                                       comp_loss_accuracy(params, "test"))
                  /\ \A i \in 1..Len(files[n]) : files[n][i].epoch < epoch
                  /\ evalLog' # evalLog
         /\ evalLog' # evalLog => files'[hparams.optimizer] # files[hparams.optimizer]
    ELSE \A n \in OptimizerNames :
             files'[n] = IF n = hparams'.optimizer THEN <<>> ELSE files[n]
C6_AppendOnlyWithinCall == [][C6_Step]_vars

C6_Witness ==
    /\ runId = 2 /\ runs[1].optimizer = runs[2].optimizer
    /\ Len(files[hparams.optimizer]) >= 2

\* C7 (as claimed): every scalar handed to the metrics sink carries an
\* epoch whose 1-based index is a multiple of the cadence.
C7_ScalarsOnlyAtTicks ==
    hparams.stats_every_num_epochs >= 1 =>
        \A i \in 1..Len(scalars) :
            Multiple(scalars[i].step + 1, hparams.stats_every_num_epochs)

\* C7 (amended): the loss and accuracy scalars are emitted only for epochs
\* whose 1-based index is a multiple of the cadence, once per name for each
\* such epoch; Epoch_time is emitted once for every epoch, tick or not.
TickTags == {"Accuracy/train", "Accuracy/test", "Loss/train", "Loss/test"}
C7_LossAccuracyOnlyAtTicks ==
    LET k == hparams.stats_every_num_epochs
        Count(tag, e) ==
            Cardinality({i \in 1..Len(scalars) :
                            scalars[i].tag = tag /\ scalars[i].step = e})
    IN  /\ \A i \in 1..Len(scalars) :
              /\ scalars[i].tag \in TickTags \cup {"Epoch_time"}
              /\ scalars[i].step \in 0..(EpochsEnded - 1)
        /\ \A e \in 0..(EpochsEnded - 1) :
              /\ Count("Epoch_time", e) = 1
              /\ \A tag \in TickTags :
                    Count(tag, e) = IF Multiple(e + 1, k) THEN 1 ELSE 0

C7_Witness ==
    /\ hparams.stats_every_num_epochs = 2
    /\ \E i, j \in 1..Len(scalars) :
          /\ scalars[i].tag = "Epoch_time" /\ scalars[i].step = 0
          /\ scalars[j].tag = "Loss/test" /\ scalars[j].step = 1

\* C8: when learning_rate_search raises, the call ends there: it has made
\* no optimizer step and no evaluation, its run log holds no record, the
\* search was entered once, and the script takes no further action.
C8_SearchFailureEndsRun ==
    error \in SearchErrors =>
        /\ pc = "FAILED"
        /\ stepLog = <<>> /\ evalLog = <<>> /\ scalars = <<>>
        /\ files[hparams.optimizer] = <<>>
        /\ cur.searches = 1
        /\ ~ENABLED Next

C8_Witness == error = "SearchExhausted" /\ pc = "FAILED"

\* C9: every call whose learning-rate search returns (or is not needed)
\* eventually reaches DONE.
C9_ReachesDone ==
    (pc = "INIT") ~> (pc = "DONE" \/ error \in SearchErrors)

\* C10: when the shared hparams start with step_size null, the first call
\* searches and every later call of the script finds the step size of that
\* search in hparams, makes no search and trains with it.
C10_SearchOnlyInFirstRun ==
    (runId >= 2 /\ IsNone(runs[1].entry_step_size)) =>
        /\ runs[1].searches = 1
        /\ ~IsNone(runs[1].best_lr)
        /\ \A r \in 2..runId :
              /\ runs[r].searches = 0
              /\ runs[r].entry_step_size = runs[1].best_lr
        /\ hparams.step_size = runs[1].best_lr
        /\ \A i \in 1..Len(stepLog) : stepLog[i].step_size = runs[1].best_lr

C10_Witness ==
    /\ runId = 2 /\ runs[1].optimizer = "sgd" /\ runs[2].optimizer = "sng"
    /\ IsNone(runs[1].entry_step_size)
    /\ pc = "DONE" /\ Len(stepLog) > 0

====
